---- MODULE Spec2Model ----
(***************************************************************************)
(* Model of the retrieval-and-answer core (QAEngine: prepare,              *)
(* answerQuestion, createStreamingCompletion, buildContext) and of the     *)
(* graph route (GET /api/graph).                                           *)
(*                                                                         *)
(* Numbers: similarity scores and thresholds are fixed-point integers in   *)
(* units of 1e-5 (0.75 is 75000), so that toFixed(4) is a real rounding.   *)
(* NaN is the value a failed Number(...) parse of an environment variable  *)
(* yields; every comparison with it is false.                              *)
(***************************************************************************)
EXTENDS Integers, Sequences, FiniteSets, TLC

\* ------------------------------------------------------------------ bounds
MaxRaw == 3
MaxCtx == 3
MaxHits == 1
MaxEffects == 2

\* ------------------------------------------------------- program constants
Unit == 10 ^ 5
NaN == 0 - 999999
Undefined == "undefined"
MaxNeighborProbes == 10
NoResponse == [kind |-> "none"]
INSUFFICIENT == "I do not have enough information to answer that."

\* ------------------------------------------------------------ input domains
Whitespace == {" ", "\n", "\t"}
\* questions, as sequences of characters: empty, whitespace-only, a word, a
\* word between whitespace
Questions == { <<>>, <<" ">>, <<"\n", "\t">>, <<"q">>, <<" ", "q", "\n">> }
ChunkNames == <<"c1", "c2", "c3", "c4", "c5">>
PageIds == {"p1", "p2"}
\* page ids of the chunks the store returns to a request; Undefined: no pageId
StorePageIds == {"p1", Undefined}
\* page ids of the lists buildContext is applied to on its own; "c1" is also
\* the id of a chunk
ContextPageIds == PageIds \cup {"c1", Undefined}
Scores == {30000, 40000, 65004, 90000}
EnvThresholds == {NaN, 75000, 150000}
EnvFallbacks == {NaN, 0, 60000, 100000}
ProviderTexts == {"", "answer"}

\* ------------------------------------------------------------ number model
IsFinite(x) == x # NaN

GE(a, b) == a # NaN /\ b # NaN /\ a >= b

Min(a, b) == IF a < b THEN a ELSE b

Max(a, b) == IF a > b THEN a ELSE b

\* Number(score.toFixed(4)): round to 4 decimals, i.e. to a multiple of 10 units
ToFixed4(s) == ((s + 5) \div 10) * 10

\* ----------------------------------------------------------- string model
RECURSIVE TrimStart(_)
TrimStart(s) ==
  IF s = <<>> THEN <<>>
  ELSE IF Head(s) \in Whitespace THEN TrimStart(Tail(s)) ELSE s

RECURSIVE TrimEnd(_)
TrimEnd(s) ==
  IF s = <<>> THEN <<>>
  ELSE IF s[Len(s)] \in Whitespace THEN TrimEnd(SubSeq(s, 1, Len(s) - 1)) ELSE s

Trim(s) == TrimEnd(TrimStart(s))

\* ------------------------------------------------------------ search results
DescendingScores(n) == { s \in [1..n -> Scores] : \A i \in 1..(n - 1) : s[i] >= s[i + 1] }

\* What store.search can return: at most topK results, chunk ids unique,
\* ranked by descending score
RawResultSets ==
  UNION {
    { [i \in 1..n |-> [id |-> ChunkNames[i], pageId |-> p[i], score |-> s[i]]] :
        p \in [1..n -> StorePageIds], s \in DescendingScores(n) }
    : n \in 0..MaxRaw }

\* Lists of included results for buildContext alone: any page ids, one score
ContextInputs ==
  UNION {
    { [i \in 1..n |-> [id |-> ChunkNames[i], pageId |-> p[i], score |-> 90000]] :
        p \in [1..n -> ContextPageIds] }
    : n \in 0..MaxCtx }

\* ------------------------------------------------------------ configuration
\* similarityThreshold default of the QAEngine constructor
ClampThreshold(env) == IF IsFinite(env) THEN Min(Max(env, 0), Unit) ELSE 20000

FallbackThresholdValid(fb) == IsFinite(fb) /\ fb > 0 /\ fb < Unit

\* ------------------------------------------------------------------ prepare
\* mutant: the question is tested without trim()
IsBlankNoTrim(q) == q = <<>>

IsBlank(q) == Trim(q) = <<>>

PrimaryFilter(raw, thr) == SelectSeq(raw, LAMBDA r : GE(r.score, thr))

FallbackFilter(raw, fb) == SelectSeq(raw, LAMBDA r : GE(r.score, fb))

\* mutant: the top-1 branch (lines 163-166) is missing
FilterResultsNoTopOne(raw, thr, fb) ==
  LET primary == PrimaryFilter(raw, thr) IN
  IF Len(primary) = 0 /\ Len(raw) > 0 /\ FallbackThresholdValid(fb)
  THEN [relevant |-> FallbackFilter(raw, fb), fallbackApplied |-> TRUE]
  ELSE [relevant |-> primary, fallbackApplied |-> FALSE]

\* mutant: the fallback is tried although the primary filter kept results
FilterResultsAlwaysFallback(raw, thr, fb) ==
  LET primary == PrimaryFilter(raw, thr) IN
  IF Len(raw) > 0 /\ FallbackThresholdValid(fb)
  THEN LET fallbackResults == FallbackFilter(raw, fb) IN
       IF Len(fallbackResults) > 0
       THEN [relevant |-> fallbackResults, fallbackApplied |-> TRUE]
       ELSE [relevant |-> <<raw[1]>>, fallbackApplied |-> TRUE]
  ELSE [relevant |-> primary, fallbackApplied |-> FALSE]

\* relevantResults and fallbackApplied
FilterResults(raw, thr, fb) ==
  LET primary == PrimaryFilter(raw, thr) IN
  IF Len(primary) = 0 /\ Len(raw) > 0 /\ FallbackThresholdValid(fb)
  THEN LET fallbackResults == FallbackFilter(raw, fb) IN
       IF Len(fallbackResults) > 0
       THEN [relevant |-> fallbackResults, fallbackApplied |-> TRUE]
       ELSE [relevant |-> <<raw[1]>>, fallbackApplied |-> TRUE]
  ELSE [relevant |-> primary, fallbackApplied |-> FALSE]

IncludedIds(relevant) == { relevant[i].id : i \in 1..Len(relevant) }

\* mutant: the trace reports the primary threshold as the fallback threshold
BuildTracePrimaryThreshold(raw, relevant, thr, fallbackApplied, fb) ==
  [ threshold |-> thr,
    fallbackApplied |-> fallbackApplied,
    fallbackThreshold |->
      IF fallbackApplied /\ FallbackThresholdValid(fb) THEN thr ELSE NaN,
    results |-> [ idx \in 1..Len(raw) |->
                   [ index |-> idx,
                     id |-> raw[idx].id,
                     score |-> ToFixed4(raw[idx].score),
                     included |-> raw[idx].id \in IncludedIds(relevant) ] ] ]

\* mutant: included is decided by the primary threshold, not by membership
BuildTraceByThreshold(raw, relevant, thr, fallbackApplied, fb) ==
  [ threshold |-> thr,
    fallbackApplied |-> fallbackApplied,
    fallbackThreshold |->
      IF fallbackApplied /\ FallbackThresholdValid(fb) THEN fb ELSE NaN,
    results |-> [ idx \in 1..Len(raw) |->
                   [ index |-> idx,
                     id |-> raw[idx].id,
                     score |-> ToFixed4(raw[idx].score),
                     included |-> GE(raw[idx].score, thr) ] ] ]

BuildTrace(raw, relevant, thr, fallbackApplied, fb) ==
  [ threshold |-> thr,
    fallbackApplied |-> fallbackApplied,
    fallbackThreshold |->
      IF fallbackApplied /\ FallbackThresholdValid(fb) THEN fb ELSE NaN,
    results |-> [ idx \in 1..Len(raw) |->
                   [ index |-> idx,
                     id |-> raw[idx].id,
                     score |-> ToFixed4(raw[idx].score),
                     included |-> raw[idx].id \in IncludedIds(relevant) ] ] ]

\* ------------------------------------------------------------- buildContext
\* mutant: references are keyed by chunk id
DedupKeyChunkId(r) == r.id

DedupKey(r) == IF r.pageId # Undefined THEN r.pageId ELSE r.id

\* seen.get(pageId) on the Map, a set of <<key, index>> pairs; 0 stands for
\* undefined (both are falsy in the test !referenceIndex)
SeenGet(seen, key) ==
  IF \E e \in seen : e[1] = key THEN (CHOOSE e \in seen : e[1] = key)[2] ELSE 0

RECURSIVE BuildContextFrom(_, _, _, _, _)
BuildContextFrom(results, i, seen, references, sections) ==
  IF i > Len(results) THEN [sections |-> sections, references |-> references]
  ELSE LET pageId == DedupKey(results[i])
           found == SeenGet(seen, pageId)
           referenceIndex == IF found = 0 THEN Len(references) + 1 ELSE found
           section == [ref |-> referenceIndex, id |-> results[i].id]
       IN IF found = 0
          THEN BuildContextFrom(results, i + 1,
                                seen \cup {<<pageId, referenceIndex>>},
                                Append(references,
                                       [ index |-> referenceIndex,
                                         score |-> results[i].score,
                                         pageId |-> pageId ]),
                                Append(sections, section))
          ELSE BuildContextFrom(results, i + 1, seen, references,
                                Append(sections, section))

BuildContext(results) == BuildContextFrom(results, 1, {}, <<>>, <<>>)

\* buildProviderMessages: the message set is determined by what prepare passes
EmptyPrompt(label) ==
  [ instructions |-> "FALLBACK_INSTRUCTIONS", context |-> "none-retrieved",
    sections |-> <<>>, label |-> label ]

ContextPrompt(fallbackApplied, sections) ==
  [ instructions |-> IF fallbackApplied THEN "QA+suggestive" ELSE "QA",
    context |-> "sections", sections |-> sections,
    label |-> IF fallbackApplied THEN "qa.prompt.fallback-context" ELSE "qa.prompt" ]

NoPrompt == [ instructions |-> "none", context |-> "none", sections |-> <<>>, label |-> "none" ]

NoTrace == [ threshold |-> NaN, fallbackApplied |-> FALSE, fallbackThreshold |-> NaN,
             results |-> <<>> ]

\* lines 186-188: console.debug(JSON.stringify(...)) when TRACE_RETRIEVAL is set;
\* the call is not guarded, so an exception of console.debug leaves prepare
DebugLog(sinkBefore, enabled, throws) ==
  IF ~enabled THEN [threw |-> FALSE, sink |-> sinkBefore]
  ELSE IF throws THEN [threw |-> TRUE, sink |-> sinkBefore]
  ELSE [threw |-> FALSE, sink |-> Append(sinkBefore, "qa_retrieval")]

\* tracePrompt (prompts/unifiedPrompt): best-effort, a failure of the sink is
\* caught inside and never propagated to the caller
TracePrompt(sinkBefore, label, fails) ==
  IF fails THEN sinkBefore ELSE Append(sinkBefore, label)

\* ------------------------------------------------------------------- state
VARIABLES
  kind,             \* "answer" (answerQuestion) or "stream" (createStreamingCompletion)
  question,         \* the question string, a sequence of characters
  similarityThreshold, \* this.similarityThreshold
  fallbackEnv,      \* FALLBACK_SIMILARITY_THRESHOLD
  traceRetrieval,   \* TRACE_RETRIEVAL
  pc,               \* position of the request
  failure,          \* what rejected the request, "none" if nothing did
  searchCalls,      \* number of store.search calls issued
  llmCalls,         \* number of chatCompletion / chatCompletionStream calls issued
  rawResults,       \* prepare's locals
  relevantResults,
  fallbackApplied,
  retrievalTrace,
  references,
  messages,
  sink,             \* what reached the trace sink, in order
  atCall,           \* references and trace as they were when the provider was called
  response,         \* what the request returned to its caller
  streamState,      \* "none", "open", "reading", "ended", "errored", "abandoned"
  ctxInput,         \* buildContext alone: its argument
  ctxOutput         \* buildContext alone: its result, NoResponse before the call

VARIABLES
  query,        \* the query parameters of the request, as sent
  cacheFile,    \* data/vector-cache.json as it is on disk
  gpc,          \* position of the GET handler
  maxNodes,     \* parsed parameters
  topK,
  threshold,
  pages,        \* cache.pages ?? {}: the page ids the cache holds
  nodeMap,      \* keys of nodeMap, in insertion order
  pageEdges,    \* entries of pageEdges, in insertion order
  neighborIds,  \* the neighbours to probe
  probe,        \* index of the probe in flight
  searches,     \* the store.search calls issued, in order
  lastResults,  \* results (lines 124, 154) of the store.search call that resolved last
  probeResults, \* the seeded build alone: what each probe returns, NoProbeResults otherwise
  status,       \* HTTP status of the response, 0 before it is sent
  body          \* JSON body of a 200 response

VARIABLES
  queryProp,    \* RelatedDocuments: the query prop of the last render
  relatedPages, \* the value last passed to setRelatedPages
  loading,      \* the value last passed to setLoading
  error,        \* the value last passed to setError
  effects,      \* the runs of fetchRelated, each with its aborted flag
  active,       \* index of the run whose cleanup is registered, 0 if none
  mounted       \* the component is mounted

relatedVars == << queryProp, relatedPages, loading, error, effects, active, mounted >>

NoPages == [source |-> "none", forQuery |-> <<>>]
NoError == "null"

RelatedIdle ==
  /\ queryProp = <<>>
  /\ relatedPages = NoPages
  /\ loading = FALSE
  /\ error = NoError
  /\ effects = <<>>
  /\ active = 0
  /\ mounted = FALSE

graphVars == << query, cacheFile, gpc, maxNodes, topK, threshold, pages, nodeMap,
                pageEdges, neighborIds, probe, searches, lastResults, probeResults,
                status, body >>

qaVars == << kind, question, similarityThreshold, fallbackEnv, traceRetrieval, pc,
             failure, searchCalls, llmCalls, rawResults, relevantResults,
             fallbackApplied, retrievalTrace, references, messages, sink, atCall,
             response, streamState >>

ctxVars == << ctxInput, ctxOutput >>

vars == << qaVars, ctxVars, graphVars, relatedVars >>

CtxIdle == ctxInput = <<>> /\ ctxOutput = NoResponse

NoBody == [nodes |-> <<>>, edges |-> <<>>]

NoProbeResults == [synthetic |-> <<>>]

NoQuery == [seedPageId |-> Undefined, maxNodes |-> NaN - 1, topK |-> NaN - 1,
            threshold |-> NaN - 1]

GraphIdle ==
  /\ query = NoQuery
  /\ cacheFile = [kind |-> "unreadable", pages |-> {}]
  /\ gpc = "idle"
  /\ maxNodes = 0
  /\ topK = 0
  /\ threshold = 0
  /\ pages = {}
  /\ nodeMap = <<>>
  /\ pageEdges = <<>>
  /\ neighborIds = <<>>
  /\ probe = 0
  /\ searches = <<>>
  /\ lastResults = <<>>
  /\ probeResults = NoProbeResults
  /\ status = 0
  /\ body = NoBody

QAInit ==
  /\ kind \in {"answer", "stream"}
  /\ question \in Questions
  /\ similarityThreshold \in { ClampThreshold(e) : e \in EnvThresholds }
  /\ fallbackEnv \in EnvFallbacks
  /\ traceRetrieval \in BOOLEAN
  /\ pc = "PREPARING"
  /\ failure = "none"
  /\ searchCalls = 0
  /\ llmCalls = 0
  /\ rawResults = <<>>
  /\ relevantResults = <<>>
  /\ fallbackApplied = FALSE
  /\ retrievalTrace = NoTrace
  /\ references = <<>>
  /\ messages = NoPrompt
  /\ sink = <<>>
  /\ atCall = NoResponse
  /\ response = NoResponse
  /\ streamState = "none"
  /\ CtxIdle
  /\ GraphIdle
  /\ RelatedIdle

\* the search call is issued before the input check
PrepareStartSearchFirst ==
  /\ pc = "PREPARING"
  /\ searchCalls' = searchCalls + 1
  /\ IF IsBlank(question)
     THEN /\ pc' = "FAILED"
          /\ failure' = "input"
     ELSE /\ pc' = "RETRIEVING"
          /\ UNCHANGED failure
  /\ UNCHANGED << kind, question, similarityThreshold, fallbackEnv, traceRetrieval,
                  llmCalls, rawResults, relevantResults, fallbackApplied,
                  retrievalTrace, references, messages, sink, atCall, response,
                  streamState >>
  /\ UNCHANGED << ctxVars, graphVars, relatedVars >>

\* prepare, lines 146-150: the input check, then the search call is issued
PrepareStart ==
  /\ pc = "PREPARING"
  /\ IF IsBlank(question)
     THEN /\ pc' = "FAILED"
          /\ failure' = "input"
          /\ UNCHANGED searchCalls
     ELSE /\ pc' = "RETRIEVING"
          /\ searchCalls' = searchCalls + 1
          /\ UNCHANGED failure
  /\ UNCHANGED << kind, question, similarityThreshold, fallbackEnv, traceRetrieval,
                  llmCalls, rawResults, relevantResults, fallbackApplied,
                  retrievalTrace, references, messages, sink, atCall, response,
                  streamState >>
  /\ UNCHANGED << ctxVars, graphVars, relatedVars >>

\* store.search rejects: the rejection propagates out of prepare
SearchReject ==
  /\ pc = "RETRIEVING"
  /\ pc' = "FAILED"
  /\ failure' = "search"
  /\ UNCHANGED << kind, question, similarityThreshold, fallbackEnv, traceRetrieval,
                  searchCalls, llmCalls, rawResults, relevantResults, fallbackApplied,
                  retrievalTrace, references, messages, sink, atCall, response,
                  streamState >>
  /\ UNCHANGED << ctxVars, graphVars, relatedVars >>

\* store.search resolves with raw; the rest of prepare (lines 151-245) runs
\* without suspension.  logThrows: the console.debug call of line 187 throws.
\* sinkFails: the trace sink behind tracePrompt fails.
SearchResolve ==
  /\ pc = "RETRIEVING"
  /\ \E raw \in RawResultSets, logThrows \in BOOLEAN, sinkFails \in BOOLEAN :
       LET f == FilterResults(raw, similarityThreshold, fallbackEnv)
           trace == BuildTrace(raw, f.relevant, similarityThreshold,
                               f.fallbackApplied, fallbackEnv)
           built == BuildContext(f.relevant)
           prompt == IF Len(f.relevant) = 0 THEN EmptyPrompt("qa.prompt.fallback")
                     ELSE ContextPrompt(f.fallbackApplied, built.sections)
           log == DebugLog(sink, traceRetrieval, logThrows)
       IN /\ rawResults' = raw
          /\ relevantResults' = f.relevant
          /\ fallbackApplied' = f.fallbackApplied
          /\ retrievalTrace' = trace
          /\ IF log.threw
             THEN /\ pc' = "FAILED"
                  /\ failure' = "log"
                  /\ sink' = log.sink
                  /\ UNCHANGED << references, messages >>
             ELSE /\ references' = (IF Len(f.relevant) = 0 THEN <<>> ELSE built.references)
                  /\ messages' = prompt
                  /\ sink' = TracePrompt(log.sink, prompt.label, sinkFails)
                  /\ pc' = (IF Len(f.relevant) = 0 THEN "EMPTY_CONTEXT"
                            ELSE "CONTEXT_BUILT")
                  /\ failure' = "none"
  /\ UNCHANGED << kind, question, similarityThreshold, fallbackEnv, traceRetrieval,
                  searchCalls, llmCalls, atCall, response, streamState >>
  /\ UNCHANGED << ctxVars, graphVars, relatedVars >>

\* prepare has returned: chatCompletion / chatCompletionStream is called with
\* the messages, DEFAULT_TEMPERATURE and the resolved provider (the provider
\* name and the trace label are passed through and decide nothing here)
CallProvider ==
  /\ pc \in {"EMPTY_CONTEXT", "CONTEXT_BUILT"}
  /\ pc' = "COMPLETING"
  /\ llmCalls' = llmCalls + 1
  /\ atCall' = [kind |-> "prepared", references |-> references,
                retrievalTrace |-> retrievalTrace]
  /\ UNCHANGED << kind, question, similarityThreshold, fallbackEnv, traceRetrieval,
                  failure, searchCalls, rawResults, relevantResults, fallbackApplied,
                  retrievalTrace, references, messages, sink, response, streamState >>
  /\ UNCHANGED << ctxVars, graphVars, relatedVars >>

\* the provider call rejects
CompletionReject ==
  /\ pc = "COMPLETING"
  /\ pc' = "FAILED"
  /\ failure' = "completion"
  /\ UNCHANGED << kind, question, similarityThreshold, fallbackEnv, traceRetrieval,
                  searchCalls, llmCalls, rawResults, relevantResults, fallbackApplied,
                  retrievalTrace, references, messages, sink, atCall, response,
                  streamState >>
  /\ UNCHANGED << ctxVars, graphVars, relatedVars >>

\* answerQuestion, lines 114-116
AnswerReturn ==
  /\ pc = "COMPLETING"
  /\ kind = "answer"
  /\ \E text \in ProviderTexts :
       response' = [ kind |-> "answer",
                     answer |-> IF text = "" THEN INSUFFICIENT ELSE text,
                     references |-> references,
                     retrievalTrace |-> retrievalTrace ]
  /\ pc' = "DONE"
  /\ UNCHANGED << kind, question, similarityThreshold, fallbackEnv, traceRetrieval,
                  failure, searchCalls, llmCalls, rawResults, relevantResults,
                  fallbackApplied, retrievalTrace, references, messages, sink, atCall,
                  streamState >>
  /\ UNCHANGED << ctxVars, graphVars, relatedVars >>

\* mutant: the handle is returned with references still to be filled in
StreamReturnLazy ==
  /\ pc = "COMPLETING"
  /\ kind = "stream"
  /\ response' = [ kind |-> "stream", answer |-> "",
                   references |-> <<>>, retrievalTrace |-> retrievalTrace ]
  /\ streamState' = "open"
  /\ pc' = "DONE"
  /\ UNCHANGED << kind, question, similarityThreshold, fallbackEnv, traceRetrieval,
                  failure, searchCalls, llmCalls, rawResults, relevantResults,
                  fallbackApplied, retrievalTrace, references, messages, sink, atCall >>
  /\ UNCHANGED << ctxVars, graphVars, relatedVars >>

\* createStreamingCompletion, lines 134-142: the stream handle is returned
StreamReturn ==
  /\ pc = "COMPLETING"
  /\ kind = "stream"
  /\ response' = [ kind |-> "stream", answer |-> "",
                   references |-> references, retrievalTrace |-> retrievalTrace ]
  /\ streamState' = "open"
  /\ pc' = "DONE"
  /\ UNCHANGED << kind, question, similarityThreshold, fallbackEnv, traceRetrieval,
                  failure, searchCalls, llmCalls, rawResults, relevantResults,
                  fallbackApplied, retrievalTrace, references, messages, sink, atCall >>
  /\ UNCHANGED << ctxVars, graphVars, relatedVars >>

\* the caller reads deltas from the returned stream
StreamDelta ==
  /\ streamState \in {"open", "reading"}
  /\ streamState' = "reading"
  /\ UNCHANGED << kind, question, similarityThreshold, fallbackEnv, traceRetrieval,
                  pc, failure, searchCalls, llmCalls, rawResults, relevantResults,
                  fallbackApplied, retrievalTrace, references, messages, sink, atCall,
                  response >>
  /\ UNCHANGED << ctxVars, graphVars, relatedVars >>

\* the stream completes, fails, or the caller stops reading it
StreamClose ==
  /\ streamState \in {"open", "reading"}
  /\ streamState' \in {"ended", "errored", "abandoned"}
  /\ UNCHANGED << kind, question, similarityThreshold, fallbackEnv, traceRetrieval,
                  pc, failure, searchCalls, llmCalls, rawResults, relevantResults,
                  fallbackApplied, retrievalTrace, references, messages, sink, atCall,
                  response >>
  /\ UNCHANGED << ctxVars, graphVars, relatedVars >>

QANext ==
  \/ PrepareStart
  \/ SearchReject
  \/ SearchResolve
  \/ CallProvider
  \/ CompletionReject
  \/ AnswerReturn
  \/ StreamReturn
  \/ StreamDelta
  \/ StreamClose

QASpec == QAInit /\ [][QANext]_vars

\* --------------------------------------------------- buildContext on its own
QAIdle ==
  /\ kind = "answer"
  /\ question = <<>>
  /\ similarityThreshold = ClampThreshold(NaN)
  /\ fallbackEnv = NaN
  /\ traceRetrieval = FALSE
  /\ pc = "idle"
  /\ failure = "none"
  /\ searchCalls = 0
  /\ llmCalls = 0
  /\ rawResults = <<>>
  /\ relevantResults = <<>>
  /\ fallbackApplied = FALSE
  /\ retrievalTrace = NoTrace
  /\ references = <<>>
  /\ messages = NoPrompt
  /\ sink = <<>>
  /\ atCall = NoResponse
  /\ response = NoResponse
  /\ streamState = "none"

ContextInit ==
  /\ QAIdle
  /\ GraphIdle
  /\ RelatedIdle
  /\ ctxInput \in ContextInputs
  /\ ctxOutput = NoResponse

CallBuildContext ==
  /\ ctxOutput = NoResponse
  /\ ctxOutput' = [kind |-> "context"] @@ BuildContext(ctxInput)
  /\ UNCHANGED << qaVars, graphVars, relatedVars, ctxInput >>

ContextNext == CallBuildContext

ContextSpec == ContextInit /\ [][ContextNext]_vars

\* ====================================================================
\* Graph route: GET /api/graph
\* ====================================================================
\* Query numbers (maxSeeds, topK, maxNodes) are fixed-point integers in tenths,
\* so that "0.5" is a value; the threshold is in score units.
Null == NaN - 1
Tenth == 10 ^ 1
PageOrder == <<"A", "B", "C", "Z">>
CachePageIds == {"A", "B", "C"}
\* the caches tried: no page, one that lacks a page the store returns, all pages
CachePageSets == { {}, {"A", "B"}, CachePageIds }
\* names every object inherits from Object.prototype
ObjectPrototypeKeys == {"constructor"}
Inherited == "inherited"
SeedParams == {Undefined, "", "B", "Z", "constructor"}
\* the numeric parameters as sent: the defaults, a maxNodes of 2, a maxNodes
\* of 1 and of 0.5 with a threshold of 0.45 (and a topK of NaN, of 1), and
\* values the parsers reject or clamp
NumericParams ==
  { [maxNodes |-> m, topK |-> Null, threshold |-> Null] : m \in {Null, 20} }
    \cup { [maxNodes |-> 10, topK |-> NaN, threshold |-> 45000],
           [maxNodes |-> 5, topK |-> 10, threshold |-> 45000],
           [maxNodes |-> 0 - 10, topK |-> 0, threshold |-> 7 * Unit] }
HitPages == {"A", "B", "C"}
HitScores == {20000, 40000, 50000}
CacheFileKinds == {"unreadable", "invalidJson", "jsonNull", "noPagesField", "valid"}

\* the entries of the page cache, by page id
PageTitle(id) == CASE id = "A" -> "Alpha" [] id = "B" -> "Beta" [] OTHER -> "Gamma"

PageSpaceKey(id) == CASE id = "A" -> "ENG" [] id = "B" -> Undefined [] OTHER -> "OPS"

PageChunkCount(id) == CASE id = "A" -> 999 [] id = "B" -> 9999 [] OTHER -> 0

\* string comparison a < b of page ids
Rank(id) == CHOOSE i \in 1..Len(PageOrder) : PageOrder[i] = id

StrLess(a, b) == Rank(a) < Rank(b)

\* Object.values(pages) order: the pages of the file, in file order
RECURSIVE SeqOfPages(_, _)
SeqOfPages(ids, i) ==
  IF i > Len(PageOrder) THEN <<>>
  ELSE (IF PageOrder[i] \in ids THEN <<PageOrder[i]>> ELSE <<>>) \o SeqOfPages(ids, i + 1)

HitLists ==
  UNION {
    { [i \in 1..n |-> [pageId |-> p[i], score |-> sc[i]]] :
        p \in [1..n -> HitPages],
        sc \in { x \in [1..n -> HitScores] : \A i \in 1..(n - 1) : x[i] >= x[i + 1] } }
    : n \in 0..MaxHits }

ParseNumber(value, fallback) ==
  IF value = Null THEN fallback
  ELSE IF IsFinite(value) /\ value > 0 THEN value ELSE fallback

ParseFloatInRange(value, fallback) ==
  IF value = Null THEN fallback
  ELSE IF ~IsFinite(value) THEN fallback
  ELSE Max(0, Min(Unit, value))

\* ToIntegerOrInfinity of a positive number in tenths
Trunc(n) == n \div Tenth

\* Array.prototype.slice(0, n), n in tenths
Slice(seq, n) == SubSeq(seq, 1, Min(Len(seq), Trunc(n)))

\* readVectorCache: the parsed file, or the empty cache when reading or
\* parsing throws.  JSON.parse returns null for the file "null".
ReadVectorCache(file) ==
  CASE file.kind \in {"unreadable", "invalidJson"} -> [kind |-> "object", pages |-> {}]
    [] file.kind = "jsonNull" -> [kind |-> "null", pages |-> {}]
    [] file.kind = "noPagesField" -> [kind |-> "object", pages |-> {}]
    [] OTHER -> [kind |-> "object", pages |-> file.pages]

\* pages[key] on a plain object: own property, else the prototype chain
Lookup(pgs, key) ==
  IF key \in pgs THEN key
  ELSE IF key \in ObjectPrototypeKeys THEN Inherited
  ELSE Undefined

\* the node made while discovering (lines 105-111, 137-143)
DiscoveredSize(id) == Max(1, Min(10, PageChunkCount(id)))

\* Math.log10(chunkCount + 1) * 2, exact for the chunk counts of the cache
Log10x2(chunkCount) ==
  CASE chunkCount = 0 -> 0 [] chunkCount = 9 -> 2 [] chunkCount = 99 -> 4
    [] chunkCount = 999 -> 6 [] OTHER -> 8

\* the key in the order of the probe: no canonical order
EdgeKeyDirected(a, b) == <<a, b>>

\* lines 131, 160: the smaller id first
EdgeKey(a, b) == IF StrLess(a, b) THEN <<a, b>> ELSE <<b, a>>

\* the entry is set to the last weight: nothing accumulates
AddWeightOverwrite(edges, key, w) ==
  IF \E i \in 1..Len(edges) : edges[i].key = key
  THEN [i \in 1..Len(edges) |->
          IF edges[i].key = key THEN [edges[i] EXCEPT !.weight = w] ELSE edges[i]]
  ELSE Append(edges, [key |-> key, weight |-> w])

\* pageEdges.set(key, (pageEdges.get(key) ?? 0) + w) on the Map, kept as the
\* sequence of its entries in insertion order
AddWeight(edges, key, w) ==
  IF \E i \in 1..Len(edges) : edges[i].key = key
  THEN [i \in 1..Len(edges) |->
          IF edges[i].key = key THEN [edges[i] EXCEPT !.weight = @ + w] ELSE edges[i]]
  ELSE Append(edges, [key |-> key, weight |-> w])

Contains(seq, x) == \E i \in 1..Len(seq) : seq[i] = x

\* lines 125-145: the results of one synthetic query
RECURSIVE ProcessSeedResults(_, _, _, _, _, _, _)
ProcessSeedResults(results, i, seedId, thr, pgs, nodes, edges) ==
  IF i > Len(results) THEN [nodes |-> nodes, edges |-> edges]
  ELSE LET r == results[i] IN
       IF r.pageId = seedId \/ r.score < thr
       THEN ProcessSeedResults(results, i + 1, seedId, thr, pgs, nodes, edges)
       ELSE ProcessSeedResults(results, i + 1, seedId, thr, pgs,
              IF Lookup(pgs, r.pageId) # Undefined /\ ~Contains(nodes, r.pageId)
              THEN Append(nodes, r.pageId) ELSE nodes,
              AddWeight(edges, EdgeKey(seedId, r.pageId), r.score))

\* no test that the other page is a known node
RECURSIVE ProcessNeighborResultsAnyPage(_, _, _, _, _, _)
ProcessNeighborResultsAnyPage(results, i, neighborId, thr, nodes, edges) ==
  IF i > Len(results) THEN edges
  ELSE LET r == results[i] IN
       IF r.pageId = neighborId \/ r.score < thr
       THEN ProcessNeighborResultsAnyPage(results, i + 1, neighborId, thr, nodes, edges)
       ELSE ProcessNeighborResultsAnyPage(results, i + 1, neighborId, thr, nodes,
              AddWeight(edges, EdgeKey(neighborId, r.pageId), r.score \div 2))

\* lines 155-162: the results of one neighbour probe; score * 0.5
RECURSIVE ProcessNeighborResults(_, _, _, _, _, _)
ProcessNeighborResults(results, i, neighborId, thr, nodes, edges) ==
  IF i > Len(results) THEN edges
  ELSE LET r == results[i] IN
       IF r.pageId = neighborId \/ ~Contains(nodes, r.pageId) \/ r.score < thr
       THEN ProcessNeighborResults(results, i + 1, neighborId, thr, nodes, edges)
       ELSE ProcessNeighborResults(results, i + 1, neighborId, thr, nodes,
              AddWeight(edges, EdgeKey(neighborId, r.pageId), r.score \div 2))

\* every discovered node other than the seed: no limit
NeighborIdsAll(nodes, seedId) == SelectSeq(nodes, LAMBDA id : id # seedId)

\* line 149: the discovered nodes other than the seed, the first 10
NeighborIds(nodes, seedId) ==
  Slice(SelectSeq(nodes, LAMBDA id : id # seedId), MaxNeighborProbes * Tenth)

\* Array.prototype.sort((a, b) => b.weight - a.weight): stable, descending
RECURSIVE InsertByWeight(_, _)
InsertByWeight(sorted, e) ==
  IF sorted = <<>> THEN <<e>>
  ELSE IF Head(sorted).weight >= e.weight
       THEN <<Head(sorted)>> \o InsertByWeight(Tail(sorted), e)
       ELSE <<e>> \o sorted

\* the entries in insertion order: no sort
SortByWeightNone(edges) == edges

RECURSIVE SortByWeight(_)
SortByWeight(edges) ==
  IF edges = <<>> THEN <<>>
  ELSE InsertByWeight(SortByWeight(SubSeq(edges, 1, Len(edges) - 1)), edges[Len(edges)])

Degree(edges, id) ==
  Cardinality({ i \in 1..Len(edges) : edges[i].source = id })
    + Cardinality({ i \in 1..Len(edges) : edges[i].target = id })

\* line 186: (degree.get(n.id) ?? 1): a node without an edge counts as degree 1
NodeSize(edges, id) ==
  LET d == Degree(edges, id)
      degreeOrOne == IF d = 0 THEN 1 ELSE d
  IN Min(18, Max(6, degreeOrOne + Log10x2(PageChunkCount(id))))

\* lines 165-189: the response of a seeded build
BuildResponse(nodes, entries, limit) ==
  LET limitedNodes == Slice(nodes, limit)
      allowed == { limitedNodes[i] : i \in 1..Len(limitedNodes) }
      mapped == [i \in 1..Len(entries) |->
                   [ source |-> entries[i].key[1], target |-> entries[i].key[2],
                     weight |-> entries[i].weight ]]
      kept == SelectSeq(mapped, LAMBDA e : e.source \in allowed /\ e.target \in allowed)
      edges == Slice(SortByWeight(kept), Max(20 * Tenth, limit * 2))
  IN [ nodes |-> [i \in 1..Len(limitedNodes) |->
                    [ id |-> limitedNodes[i],
                      label |-> PageTitle(limitedNodes[i]),
                      size |-> NodeSize(edges, limitedNodes[i]),
                      chunkCount |-> PageChunkCount(limitedNodes[i]),
                      spaceKey |-> PageSpaceKey(limitedNodes[i]) ]],
       edges |-> edges ]

\* lines 77-87: the response without a seed
SampleResponse(pgs, limit) ==
  LET pageEntries == Slice(SeqOfPages(pgs, 1), Min(limit, 25 * Tenth))
  IN [ nodes |-> [i \in 1..Len(pageEntries) |->
                    [ id |-> pageEntries[i],
                      label |-> PageTitle(pageEntries[i]),
                      size |-> DiscoveredSize(pageEntries[i]),
                      chunkCount |-> PageChunkCount(pageEntries[i]),
                      spaceKey |-> PageSpaceKey(pageEntries[i]) ]],
       edges |-> <<>> ]

\* lines 117-120
SyntheticQueries(seedId) ==
  << PageTitle(seedId),
     IF PageSpaceKey(seedId) # Undefined
     THEN PageTitle(seedId) \o " " \o PageSpaceKey(seedId) ELSE PageTitle(seedId) >>

\* the index of the next neighbour to probe from i on, skipping (line 152)
\* the ones the cache does not hold; Len(ids) + 1 when there is none
RECURSIVE NextProbe(_, _, _)
NextProbe(ids, i, pgs) ==
  IF i > Len(ids) THEN i
  ELSE IF Lookup(pgs, ids[i]) = Undefined THEN NextProbe(ids, i + 1, pgs) ELSE i

\* k of a neighbour probe: Math.max(3, Math.floor(topK / 2))
NeighborK(k) == Max(3 * Tenth, ((k \div 2) \div Tenth) * Tenth)

Respond(code, json) ==
  /\ status' = code
  /\ body' = json
  /\ gpc' = "done"

GraphCacheFiles ==
  { [kind |-> k, pages |-> {}] : k \in CacheFileKinds \ {"valid"} }
    \cup { [kind |-> "valid", pages |-> ps] : ps \in CachePageSets }

GraphInit ==
  /\ QAIdle
  /\ CtxIdle
  /\ RelatedIdle
  /\ query \in { [seedPageId |-> sd] @@ n : sd \in SeedParams, n \in NumericParams }
  /\ cacheFile \in GraphCacheFiles
  /\ gpc = "start"
  /\ maxNodes = 0
  /\ topK = 0
  /\ threshold = 0
  /\ pages = {}
  /\ nodeMap = <<>>
  /\ pageEdges = <<>>
  /\ neighborIds = <<>>
  /\ probe = 0
  /\ searches = <<>>
  /\ lastResults = <<>>
  /\ probeResults = NoProbeResults
  /\ status = 0
  /\ body = NoBody

\* lines 64-71: the parameters are parsed and the cache file is read
GraphStart ==
  /\ gpc = "start"
  /\ maxNodes' = ParseNumber(query.maxNodes, 50 * Tenth)
  /\ topK' = ParseNumber(query.topK, 5 * Tenth)
  /\ threshold' = ParseFloatInRange(query.threshold, 25000)
  /\ gpc' = "reading"
  /\ UNCHANGED << query, cacheFile, pages, nodeMap, pageEdges, neighborIds, probe,
                  searches, status, body >>
  /\ UNCHANGED << lastResults, probeResults >>
  /\ UNCHANGED << qaVars, ctxVars, relatedVars >>

\* lines 71-95: the cache is there; no seed, unknown seed, or the store is asked for
CacheRead ==
  /\ gpc = "reading"
  /\ LET cache == ReadVectorCache(cacheFile) IN
     IF cache.kind = "null"
     THEN /\ Respond(500, NoBody)
          /\ UNCHANGED pages
     ELSE /\ pages' = cache.pages
          /\ IF query.seedPageId \in {Undefined, ""}
             THEN Respond(200, SampleResponse(cache.pages, maxNodes))
             ELSE IF Lookup(cache.pages, query.seedPageId) = Undefined
                  THEN Respond(404, NoBody)
                  ELSE /\ gpc' = "connecting"
                       /\ UNCHANGED << status, body >>
  /\ UNCHANGED << query, cacheFile, maxNodes, topK, threshold, nodeMap, pageEdges,
                  neighborIds, probe, searches >>
  /\ UNCHANGED << lastResults, probeResults >>
  /\ UNCHANGED << qaVars, ctxVars, relatedVars >>

\* getPineconeStore rejects: the catch of line 190
StoreReject ==
  /\ gpc = "connecting"
  /\ Respond(500, NoBody)
  /\ UNCHANGED << query, cacheFile, maxNodes, topK, threshold, pages, nodeMap,
                  pageEdges, neighborIds, probe, searches >>
  /\ UNCHANGED << lastResults, probeResults >>
  /\ UNCHANGED << qaVars, ctxVars, relatedVars >>

\* lines 95-124: the store is there; seed.chunkIds.slice (a TypeError when the
\* seed is not an entry of the cache), the seed node, the first synthetic query
StoreReady ==
  /\ gpc = "connecting"
  /\ LET seed == Lookup(pages, query.seedPageId) IN
     IF seed = Inherited
     THEN /\ Respond(500, NoBody)
          /\ UNCHANGED << nodeMap, probe, searches >>
     ELSE /\ nodeMap' = <<seed>>
          /\ probe' = 1
          /\ searches' = Append(searches, [q |-> SyntheticQueries(seed)[1], k |-> topK])
          /\ gpc' = "synthetic"
          /\ UNCHANGED << status, body >>
  /\ UNCHANGED << query, cacheFile, maxNodes, topK, threshold, pages, pageEdges,
                  neighborIds >>
  /\ UNCHANGED << lastResults, probeResults >>
  /\ UNCHANGED << qaVars, ctxVars, relatedVars >>

\* a store.search call rejects: the catch of line 190
SearchFail ==
  /\ gpc \in {"synthetic", "neighbors"}
  /\ Respond(500, NoBody)
  /\ UNCHANGED << query, cacheFile, maxNodes, topK, threshold, pages, nodeMap,
                  pageEdges, neighborIds, probe, searches >>
  /\ UNCHANGED << lastResults, probeResults >>
  /\ UNCHANGED << qaVars, ctxVars, relatedVars >>

\* lines 123-146, and after the second query lines 149-154 (the first neighbour
\* probe) or lines 165-189 (no neighbour: the response)
SyntheticResolve ==
  /\ gpc = "synthetic"
  /\ \E results \in HitLists :
       /\ Len(results) * Tenth <= topK
       /\ LET seed == nodeMap[1]
              done == ProcessSeedResults(results, 1, seed, threshold, pages,
                                         nodeMap, pageEdges)
              ids == NeighborIds(done.nodes, seed)
              first == NextProbe(ids, 1, pages)
          IN /\ nodeMap' = done.nodes
             /\ lastResults' = results
             /\ UNCHANGED probeResults
             /\ pageEdges' = done.edges
             /\ IF probe = 1
                THEN /\ probe' = 2
                     /\ searches' = Append(searches,
                                           [q |-> SyntheticQueries(seed)[2], k |-> topK])
                     /\ UNCHANGED << gpc, neighborIds, status, body >>
                ELSE /\ neighborIds' = ids
                     /\ IF first > Len(ids)
                        THEN /\ Respond(200, BuildResponse(done.nodes, done.edges, maxNodes))
                             /\ UNCHANGED << probe, searches >>
                        ELSE /\ probe' = first
                             /\ searches' = Append(searches,
                                               [q |-> PageTitle(ids[first]),
                                                k |-> NeighborK(topK)])
                             /\ gpc' = "neighbors"
                             /\ UNCHANGED << status, body >>
  /\ UNCHANGED << query, cacheFile, maxNodes, topK, threshold, pages >>
  /\ UNCHANGED << qaVars, ctxVars, relatedVars >>

\* lines 154-163, then the next neighbour probe or lines 165-189
NeighborResolve ==
  /\ gpc = "neighbors"
  /\ \E results \in HitLists :
       /\ Len(results) * Tenth <= NeighborK(topK)
       /\ LET edges == ProcessNeighborResults(results, 1, neighborIds[probe], threshold,
                                              nodeMap, pageEdges)
              next == NextProbe(neighborIds, probe + 1, pages)
          IN /\ pageEdges' = edges
             /\ lastResults' = results
             /\ UNCHANGED probeResults
             /\ IF next > Len(neighborIds)
                THEN /\ Respond(200, BuildResponse(nodeMap, edges, maxNodes))
                     /\ UNCHANGED << probe, searches >>
                ELSE /\ probe' = next
                     /\ searches' = Append(searches,
                                           [q |-> PageTitle(neighborIds[next]),
                                            k |-> NeighborK(topK)])
                     /\ UNCHANGED << gpc, status, body >>
  /\ UNCHANGED << query, cacheFile, maxNodes, topK, threshold, pages, nodeMap,
                  neighborIds >>
  /\ UNCHANGED << qaVars, ctxVars, relatedVars >>

GraphNext ==
  \/ GraphStart
  \/ CacheRead
  \/ StoreReject
  \/ StoreReady
  \/ SearchFail
  \/ SyntheticResolve
  \/ NeighborResolve

GraphSpec == GraphInit /\ [][GraphNext]_vars

\* --------------------------------------------------------------------
\* Lines 165-189 alone: the response built from a node Map and an edge Map
\* large enough to be truncated
\* --------------------------------------------------------------------
ResponsePages == <<"A", "B", "C", "D", "E", "F", "G", "H">>

\* every pair of ResponsePages, the smaller id first, as canonical keys
RECURSIVE PairsFrom(_, _)
PairsFrom(i, j) ==
  IF i >= Len(ResponsePages) THEN <<>>
  ELSE IF j > Len(ResponsePages) THEN PairsFrom(i + 1, i + 2)
  ELSE << << ResponsePages[i], ResponsePages[j] >> >> \o PairsFrom(i, j + 1)

\* the weight of the k-th entry: rising, falling, all equal, mixed with ties
WeightPatterns == {"rising", "falling", "equal", "mixed"}

EntryWeight(pattern, k) ==
  CASE pattern = "rising" -> k * 1000
    [] pattern = "falling" -> (30 - k) * 1000
    [] pattern = "equal" -> 50000
    [] OTHER -> (1 + ((k * 7) % 5)) * 10000

\* the edge Maps tried: the first m pairs in insertion order
ResponseEntries ==
  { [k \in 1..m |-> [key |-> PairsFrom(1, 2)[k], weight |-> EntryWeight(p, k)]] :
      m \in 0..Len(PairsFrom(1, 2)), p \in WeightPatterns }

\* maxNodes as sent: 0.5, 3, 7.5, 10.5 and none (50)
ResponseLimits == {Null, 5, 30, 75, 105}

\* the handler has reached line 165 with the seed A and n nodes discovered
ResponseInit ==
  /\ QAIdle
  /\ CtxIdle
  /\ RelatedIdle
  /\ \E n \in 1..Len(ResponsePages), m \in ResponseLimits :
       /\ nodeMap = SubSeq(ResponsePages, 1, n)
       /\ pages = { ResponsePages[i] : i \in 1..n }
       /\ cacheFile = [kind |-> "valid", pages |-> { ResponsePages[i] : i \in 1..n }]
       /\ query = [seedPageId |-> "A", maxNodes |-> m, topK |-> Null, threshold |-> Null]
       /\ maxNodes = ParseNumber(m, 50 * Tenth)
  /\ pageEdges \in ResponseEntries
  /\ gpc = "responding"
  /\ topK = 5 * Tenth
  /\ threshold = 25000
  /\ neighborIds = <<>>
  /\ probe = 0
  /\ searches = <<>>
  /\ lastResults = <<>>
  /\ probeResults = NoProbeResults
  /\ status = 0
  /\ body = NoBody

\* lines 165-189
CallBuildResponse ==
  /\ gpc = "responding"
  /\ Respond(200, BuildResponse(nodeMap, pageEdges, maxNodes))
  /\ UNCHANGED << query, cacheFile, maxNodes, topK, threshold, pages, nodeMap,
                  pageEdges, neighborIds, probe, searches, lastResults,
                  probeResults >>
  /\ UNCHANGED << qaVars, ctxVars, relatedVars >>

ResponseNext == CallBuildResponse

ResponseSpec == ResponseInit /\ [][ResponseNext]_vars

\* --------------------------------------------------------------------
\* Lines 148-189 alone: the ego-network stage, entered with the nodes and
\* edges that two synthetic queries have left
\* --------------------------------------------------------------------
\* twelve pages in the order of their discovery, the seed B first
ExpansionPages == <<"B", "A", "C", "D", "E", "F", "G", "H", "I", "J", "K", "L">>

\* the entry the synthetic stage made for the i-th discovered page (line 131)
SeedEntry(i, w) ==
  [ key |-> IF ExpansionPages[i] = "A" THEN <<"A", "B">> ELSE <<"B", ExpansionPages[i]>>,
    weight |-> w ]

\* what the synthetic stage can have left: one or two neighbours found with
\* the default parameters, and eleven found with topK = 6 and threshold = 1
\* by results of score 1
ExpansionStarts ==
  { [ found |-> 2, k |-> Null, thr |-> Null, score |-> 50000, last |-> 0 ],
    [ found |-> 3, k |-> Null, thr |-> Null, score |-> 40000, last |-> 1 ],
    [ found |-> Len(ExpansionPages), k |-> 6 * Tenth, thr |-> Unit, score |-> Unit,
      last |-> 5 ] }

\* the handler has reached line 154 for the first neighbour
ExpansionInit ==
  /\ QAIdle
  /\ CtxIdle
  /\ RelatedIdle
  /\ \E s \in ExpansionStarts :
       /\ query = [seedPageId |-> "B", maxNodes |-> Null, topK |-> s.k, threshold |-> s.thr]
       /\ topK = ParseNumber(s.k, 5 * Tenth)
       /\ threshold = ParseFloatInRange(s.thr, 25000)
       /\ nodeMap = SubSeq(ExpansionPages, 1, s.found)
       /\ pageEdges = [i \in 1..(s.found - 1) |-> SeedEntry(i + 1, s.score)]
       /\ lastResults = [i \in 1..s.last |->
                           [pageId |-> ExpansionPages[s.found - s.last + i],
                            score |-> s.score]]
       /\ neighborIds = NeighborIds(SubSeq(ExpansionPages, 1, s.found), "B")
       /\ searches = << [q |-> SyntheticQueries("B")[1], k |-> ParseNumber(s.k, 5 * Tenth)],
                        [q |-> SyntheticQueries("B")[2], k |-> ParseNumber(s.k, 5 * Tenth)],
                        [q |-> PageTitle("A"), k |-> NeighborK(ParseNumber(s.k, 5 * Tenth))] >>
  /\ cacheFile = [kind |-> "valid",
                  pages |-> { ExpansionPages[i] : i \in 1..Len(ExpansionPages) }]
  /\ pages = { ExpansionPages[i] : i \in 1..Len(ExpansionPages) }
  /\ maxNodes = 50 * Tenth
  /\ probeResults = NoProbeResults
  /\ gpc = "neighbors"
  /\ probe = 1
  /\ status = 0
  /\ body = NoBody

ExpansionNext ==
  \/ NeighborResolve
  \/ SearchFail

ExpansionSpec == ExpansionInit /\ [][ExpansionNext]_vars

\* the whole request together with the ego-network stage entered directly
GraphOrExpansionInit == GraphInit \/ ExpansionInit

GraphOrExpansionSpec == GraphOrExpansionInit /\ [][GraphNext]_vars

\* --------------------------------------------------------------------
\* Lines 122-189 alone: the seeded build as a function of what its probes
\* return
\* --------------------------------------------------------------------
\* lines 150-163: the neighbours are probed in the order of neighborIds, each
\* probe returning byNeighbor[its neighbour]
RECURSIVE ProbeNeighbors(_, _, _, _, _, _, _)
ProbeNeighbors(ids, i, byNeighbor, thr, pgs, nodes, edges) ==
  IF i > Len(ids) THEN edges
  ELSE IF Lookup(pgs, ids[i]) = Undefined
       THEN ProbeNeighbors(ids, i + 1, byNeighbor, thr, pgs, nodes, edges)
       ELSE ProbeNeighbors(ids, i + 1, byNeighbor, thr, pgs, nodes,
              ProcessNeighborResults(byNeighbor[ids[i]], 1, ids[i], thr, nodes, edges))

\* lines 122-189: the two synthetic queries, processed in the order given,
\* then the neighbour probes, then the response
BuildGraph(seedId, synthetic, byNeighbor, thr, pgs, limit) ==
  LET one == ProcessSeedResults(synthetic[1], 1, seedId, thr, pgs, <<seedId>>, <<>>)
      two == ProcessSeedResults(synthetic[2], 1, seedId, thr, pgs, one.nodes, one.edges)
      ids == NeighborIds(two.nodes, seedId)
      edges == ProbeNeighbors(ids, 1, byNeighbor, thr, pgs, two.nodes, two.edges)
  IN BuildResponse(two.nodes, edges, limit)

\* what a neighbour probe returns: nothing, or one page with 0.5
NeighborHitLists ==
  { <<>> } \cup { << [pageId |-> p, score |-> 50000] >> : p \in HitPages }

\* what a synthetic query returns: nothing, or one page with one score
SyntheticHitLists ==
  { <<>> } \cup { << [pageId |-> p, score |-> sc] >> : p \in HitPages, sc \in HitScores }

ProbeResultSets ==
  { [synthetic |-> <<a, b>>, byNeighbor |-> f] :
      a \in SyntheticHitLists, b \in SyntheticHitLists,
      f \in [HitPages -> NeighborHitLists] }

\* the handler has reached line 122 for the seed B, with every page cached,
\* the default topK and threshold, and a maxNodes of 2 or none (50)
SeededBuildInit ==
  /\ QAIdle
  /\ CtxIdle
  /\ RelatedIdle
  /\ \E m \in {Null, 20} :
       /\ query = [seedPageId |-> "B", maxNodes |-> m, topK |-> Null, threshold |-> Null]
       /\ maxNodes = ParseNumber(m, 50 * Tenth)
  /\ probeResults \in ProbeResultSets
  /\ cacheFile = [kind |-> "valid", pages |-> CachePageIds]
  /\ pages = CachePageIds
  /\ topK = 5 * Tenth
  /\ threshold = 25000
  /\ gpc = "building"
  /\ nodeMap = <<>>
  /\ pageEdges = <<>>
  /\ neighborIds = <<>>
  /\ probe = 0
  /\ searches = <<>>
  /\ lastResults = <<>>
  /\ status = 0
  /\ body = NoBody

\* lines 122-189
CallBuildGraph ==
  /\ gpc = "building"
  /\ Respond(200, BuildGraph(query.seedPageId, probeResults.synthetic,
                             probeResults.byNeighbor, threshold, pages, maxNodes))
  /\ UNCHANGED << query, cacheFile, maxNodes, topK, threshold, pages, nodeMap,
                  pageEdges, neighborIds, probe, searches, lastResults,
                  probeResults >>
  /\ UNCHANGED << qaVars, ctxVars, relatedVars >>

SeededBuildNext == CallBuildGraph

SeededBuildSpec == SeededBuildInit /\ [][SeededBuildNext]_vars

\* ====================================================================
\* RelatedDocuments: the effect of lines 20-102 and its fetch sequence
\* ====================================================================
\* the query props tried: empty, blank, two questions
RelatedQueries == { <<>>, <<" ">>, <<"a">>, <<"b">> }

\* what the /api/qa stream carried in its metadata: no reference, or some
ReferenceLists == { <<>>, <<"ref">> }

\* a run of fetchRelated up to its first await: fetch('/api/qa') is pending
NewRun(q) == [query |-> q, aborted |-> FALSE, pc |-> "qa", references |-> <<>>]

\* the cleanup of line 101 for the registered run, if there is one
Cleanup(runs, registered) ==
  IF registered = 0 THEN runs ELSE [runs EXCEPT ![registered].aborted = TRUE]

\* the component has mounted with a query and its effect has run (lines 20-26,
\* 100-101): nothing for a blank query, else a run is started
RelatedInit ==
  /\ QAIdle
  /\ CtxIdle
  /\ GraphIdle
  /\ mounted = TRUE
  /\ queryProp \in RelatedQueries
  /\ relatedPages = NoPages
  /\ error = NoError
  /\ loading = ~IsBlank(queryProp)
  /\ effects = (IF IsBlank(queryProp) THEN <<>> ELSE << NewRun(queryProp) >>)
  /\ active = (IF IsBlank(queryProp) THEN 0 ELSE 1)

\* the query prop changes: the cleanup of the previous effect runs, then the
\* effect runs again (lines 21-26, 100-101)
ChangeQuery ==
  /\ mounted
  /\ \E q \in RelatedQueries \ {queryProp} :
       /\ IsBlank(q) \/ Len(effects) < MaxEffects
       /\ queryProp' = q
       /\ IF IsBlank(q)
          THEN /\ effects' = Cleanup(effects, active)
               /\ active' = 0
               /\ UNCHANGED << loading, error >>
          ELSE /\ effects' = Append(Cleanup(effects, active), NewRun(q))
               /\ active' = Len(effects) + 1
               /\ loading' = TRUE
               /\ error' = NoError
  /\ UNCHANGED << relatedPages, mounted >>
  /\ UNCHANGED << qaVars, ctxVars, graphVars >>

\* the component unmounts: the cleanup of line 101 runs
Unmount ==
  /\ mounted
  /\ mounted' = FALSE
  /\ effects' = Cleanup(effects, active)
  /\ active' = 0
  /\ UNCHANGED << queryProp, relatedPages, loading, error >>
  /\ UNCHANGED << qaVars, ctxVars, graphVars >>

\* lines 93-97: the catch and the finally of run e, both behind !aborted
Catch(e, message) ==
  /\ effects' = [effects EXCEPT ![e].pc = "done"]
  /\ error' = (IF effects[e].aborted THEN error ELSE message)
  /\ loading' = (IF effects[e].aborted THEN loading ELSE FALSE)
  /\ UNCHANGED << queryProp, relatedPages, active, mounted >>

\* lines 95-97 after a try block that set the pages to shown
Finally(e, shown) ==
  /\ effects' = [effects EXCEPT ![e].pc = "done"]
  /\ relatedPages' = shown
  /\ loading' = (IF effects[e].aborted THEN loading ELSE FALSE)
  /\ UNCHANGED << queryProp, error, active, mounted >>

\* fetch('/api/qa') rejects, answers with !ok or without a body (lines 29-42)
QaFail ==
  \E e \in 1..Len(effects) :
    /\ effects[e].pc = "qa"
    /\ Catch(e, "qa")
    /\ UNCHANGED << qaVars, ctxVars, graphVars >>

\* fetch('/api/qa') answers: the stream is being read (lines 41-48)
QaRespond ==
  \E e \in 1..Len(effects) :
    /\ effects[e].pc = "qa"
    /\ effects' = [effects EXCEPT ![e].pc = "reading"]
    /\ UNCHANGED << queryProp, relatedPages, loading, error, active, mounted >>
    /\ UNCHANGED << qaVars, ctxVars, graphVars >>

\* reader.read() rejects (line 48)
ReadFail ==
  \E e \in 1..Len(effects) :
    /\ effects[e].pc = "reading"
    /\ Catch(e, "read")
    /\ UNCHANGED << qaVars, ctxVars, graphVars >>

\* the stream has ended with refs collected (lines 49-80): the pages are set
\* from the references, or fetch('/api/graph?maxNodes=5') is issued
ReadDone ==
  \E e \in 1..Len(effects), refs \in ReferenceLists :
    /\ effects[e].pc = "reading"
    /\ IF ~effects[e].aborted /\ Len(refs) > 0
       THEN /\ effects' = [effects EXCEPT ![e].pc = "done", ![e].references = refs]
            /\ relatedPages' = [source |-> "references", forQuery |-> effects[e].query]
            /\ loading' = FALSE
            /\ UNCHANGED << queryProp, error, active, mounted >>
       ELSE /\ effects' = [effects EXCEPT ![e].pc = "graph", ![e].references = refs]
            /\ UNCHANGED << queryProp, relatedPages, loading, error, active, mounted >>
    /\ UNCHANGED << qaVars, ctxVars, graphVars >>

\* fetch('/api/graph') rejects (line 80)
GraphFetchFail ==
  \E e \in 1..Len(effects) :
    /\ effects[e].pc = "graph"
    /\ Catch(e, "graph")
    /\ UNCHANGED << qaVars, ctxVars, graphVars >>

\* fetch('/api/graph') answers: !ok ends the run (line 81), ok reads the JSON
GraphFetchRespond ==
  \E e \in 1..Len(effects), ok \in BOOLEAN :
    /\ effects[e].pc = "graph"
    /\ IF ok
       THEN /\ effects' = [effects EXCEPT ![e].pc = "json"]
            /\ UNCHANGED << queryProp, relatedPages, loading, error, active, mounted >>
       ELSE Finally(e, relatedPages)
    /\ UNCHANGED << qaVars, ctxVars, graphVars >>

\* graphResponse.json() rejects (line 82)
JsonFail ==
  \E e \in 1..Len(effects) :
    /\ effects[e].pc = "json"
    /\ Catch(e, "json")
    /\ UNCHANGED << qaVars, ctxVars, graphVars >>

\* graphResponse.json() resolves (lines 82-91): with nodes the pages are set,
\* whatever aborted is
JsonResolve ==
  \E e \in 1..Len(effects), hasNodes \in BOOLEAN :
    /\ effects[e].pc = "json"
    /\ Finally(e, IF hasNodes
                  THEN [source |-> "graph", forQuery |-> effects[e].query]
                  ELSE relatedPages)
    /\ UNCHANGED << qaVars, ctxVars, graphVars >>

RelatedNext ==
  \/ ChangeQuery
  \/ Unmount
  \/ QaFail
  \/ QaRespond
  \/ ReadFail
  \/ ReadDone
  \/ GraphFetchFail
  \/ GraphFetchRespond
  \/ JsonFail
  \/ JsonResolve

RelatedSpec == RelatedInit /\ [][RelatedNext]_vars

\* ====================================================================
\* Properties
\* ====================================================================

\* prepare has received the search results and filtered them
Retrieved ==
  \/ pc \in {"EMPTY_CONTEXT", "CONTEXT_BUILT", "COMPLETING", "DONE"}
  \/ failure \in {"log", "completion"}

WhitespaceOnly(q) == \A i \in 1..Len(q) : q[i] \in Whitespace

ScoresAllBelow(t) == \A i \in 1..Len(rawResults) : rawResults[i].score < t

SomeScoreAtLeast(t) == \E i \in 1..Len(rawResults) : rawResults[i].score >= t

RawAtLeast(t) == SelectSeq(rawResults, LAMBDA r : r.score >= t)

FallbackConfigured == fallbackEnv # NaN /\ fallbackEnv > 0 /\ fallbackEnv < Unit

ScoresOf(rs) == [i \in 1..Len(rs) |-> rs[i].score]

\* C1: a request whose question is empty or whitespace-only fails with the
\* input error and has issued no vector-search call and no language-model call.
C1_BlankQuestionNoRemoteCall ==
  WhitespaceOnly(question) =>
    /\ searchCalls = 0
    /\ llmCalls = 0
    /\ response = NoResponse
    /\ pc \in {"PREPARING", "FAILED"}
    /\ pc = "FAILED" => failure = "input"

C1_Witness ==
  /\ question = <<"\n", "\t">>
  /\ pc = "FAILED"
  /\ failure = "input"
  /\ searchCalls = 0

\* C2 as stated: for every raw result set whose scores are all below the
\* primary threshold, with a valid fallback threshold configured, the fallback
\* is applied, and if no score reaches the fallback threshold the included set
\* is exactly the single top-scored raw result.
C2_Original ==
  (Retrieved /\ ScoresAllBelow(similarityThreshold) /\ FallbackConfigured) =>
    /\ fallbackApplied
    /\ ~SomeScoreAtLeast(fallbackEnv) =>
         /\ Len(rawResults) > 0
         /\ relevantResults = <<rawResults[1]>>

\* C2 amended: the same for every NON-EMPTY raw result set (for the empty raw
\* set nothing is included and fallbackApplied stays false).
C2_FallbackApplied ==
  (Retrieved /\ Len(rawResults) > 0 /\ ScoresAllBelow(similarityThreshold)
     /\ FallbackConfigured) =>
    /\ fallbackApplied
    /\ retrievalTrace.fallbackApplied
    /\ ~SomeScoreAtLeast(fallbackEnv) =>
         /\ relevantResults = <<rawResults[1]>>
         /\ \A i \in 1..Len(rawResults) : rawResults[1].score >= rawResults[i].score

C2_Witness ==
  /\ Retrieved
  /\ similarityThreshold = 75000
  /\ fallbackEnv = 60000
  /\ ScoresOf(rawResults) = <<40000, 30000>>
  /\ ScoresOf(relevantResults) = <<40000>>
  /\ fallbackApplied

\* C3: when the primary filter keeps nothing, the raw set is non-empty, the
\* fallback threshold is valid and some raw score reaches it, the included set
\* is exactly the raw results with score >= the fallback threshold,
\* fallbackApplied is true and the trace's fallbackThreshold is the configured one.
C3_FallbackThresholdFilter ==
  (Retrieved /\ Len(rawResults) > 0 /\ ScoresAllBelow(similarityThreshold)
     /\ FallbackConfigured /\ SomeScoreAtLeast(fallbackEnv)) =>
    /\ relevantResults = RawAtLeast(fallbackEnv)
    /\ fallbackApplied
    /\ retrievalTrace.fallbackApplied
    /\ retrievalTrace.fallbackThreshold = fallbackEnv

C3_Witness ==
  /\ Retrieved
  /\ similarityThreshold = 75000
  /\ fallbackEnv = 60000
  /\ ScoresOf(rawResults) = <<65004, 40000>>
  /\ ScoresOf(relevantResults) = <<65004>>
  /\ retrievalTrace.fallbackThreshold = 60000

\* C4: whenever some raw score reaches the primary threshold, the included set
\* is exactly the raw results with score >= that threshold, in raw order, and
\* no fallback is applied.
C4_PrimaryFilter ==
  (Retrieved /\ SomeScoreAtLeast(similarityThreshold)) =>
    /\ relevantResults = RawAtLeast(similarityThreshold)
    /\ ~fallbackApplied
    /\ ~retrievalTrace.fallbackApplied
    /\ retrievalTrace.fallbackThreshold = NaN

C4_Witness ==
  /\ Retrieved
  /\ similarityThreshold = 75000
  /\ fallbackEnv = 60000
  /\ ScoresOf(rawResults) = <<90000, 65004, 30000>>
  /\ ScoresOf(relevantResults) = <<90000>>
  /\ ~fallbackApplied

\* C5: the trace has one entry per raw result, in raw order, and an entry is
\* marked included exactly when its raw result is in the filtered set that
\* builds the context and the references, whichever branch produced that set.
C5_TraceCoversRaw ==
  Retrieved =>
    /\ Len(retrievalTrace.results) = Len(rawResults)
    /\ \A i \in 1..Len(rawResults) :
         /\ retrievalTrace.results[i].index = i
         /\ retrievalTrace.results[i].id = rawResults[i].id
         /\ retrievalTrace.results[i].included
              <=> (\E j \in 1..Len(relevantResults) : relevantResults[j] = rawResults[i])
    /\ failure # "log" =>
         /\ Len(messages.sections) = Len(relevantResults)
         /\ \A j \in 1..Len(relevantResults) :
              messages.sections[j].id = relevantResults[j].id

C5_Witness ==
  /\ Retrieved
  /\ fallbackApplied
  /\ ~SomeScoreAtLeast(fallbackEnv)
  /\ Len(rawResults) = 3
  /\ retrievalTrace.results[1].included
  /\ ~retrievalTrace.results[2].included
  /\ rawResults[2].score = rawResults[1].score

\* C6: buildContext returns one reference per distinct dedup key (pageId, or
\* the chunk id when pageId is absent), numbered 1..N in first-seen order over
\* the included list, and tags every section with the index of its key.
CtxKey(r) == IF r.pageId = Undefined THEN r.id ELSE r.pageId

CtxKeys == { CtxKey(ctxInput[i]) : i \in 1..Len(ctxInput) }

CtxFirst(k) == CHOOSE i \in 1..Len(ctxInput) :
                 /\ CtxKey(ctxInput[i]) = k
                 /\ \A j \in 1..(i - 1) : CtxKey(ctxInput[j]) # k

C6_ReferencesUniqueContiguous ==
  ctxOutput # NoResponse =>
    LET refs == ctxOutput.references IN
    /\ Len(refs) = Cardinality(CtxKeys)
    /\ \A j \in 1..Len(refs) :
         /\ refs[j].index = j
         /\ refs[j].pageId \in CtxKeys
    /\ \A j, k \in 1..Len(refs) :
         /\ j # k => refs[j].pageId # refs[k].pageId
         /\ j < k => CtxFirst(refs[j].pageId) < CtxFirst(refs[k].pageId)
    /\ Len(ctxOutput.sections) = Len(ctxInput)
    /\ \A i \in 1..Len(ctxInput) :
         refs[ctxOutput.sections[i].ref].pageId = CtxKey(ctxInput[i])

C6_Witness ==
  /\ ctxOutput # NoResponse
  /\ [i \in 1..Len(ctxInput) |-> ctxInput[i].pageId] = <<"p1", "p2", "p1">>
  /\ Len(ctxOutput.references) = 2
  /\ [i \in 1..3 |-> ctxOutput.sections[i].ref] = <<1, 2, 1>>

\* C7: in createStreamingCompletion the provider's stream is opened only after
\* the search, the filtering and the reference assignment are done; the handle
\* is returned with those references and that trace, and reading, ending,
\* failing or abandoning the stream never changes them.
C7_ReferencesBeforeStream ==
  /\ [](kind = "stream" /\ llmCalls > 0 =>
          /\ searchCalls = 1
          /\ Retrieved
          /\ atCall.kind = "prepared"
          /\ atCall.references = references
          /\ atCall.retrievalTrace = retrievalTrace
          /\ Len(retrievalTrace.results) = Len(rawResults))
  /\ [](streamState # "none" =>
          /\ response.references = atCall.references
          /\ response.retrievalTrace = atCall.retrievalTrace)
  /\ [][streamState # "none" => response' = response]_vars

C7_Witness ==
  /\ streamState = "errored"
  /\ Len(response.references) = 2
  /\ response.retrievalTrace.fallbackApplied

\* C8: zero included results is not an error: the prompt is built and the
\* provider is invoked, the references are empty, and for an empty raw set no
\* fallback is applied and the trace has no entry.
C8_EmptyRetrievalNotAnError ==
  (Retrieved /\ Len(relevantResults) = 0) =>
    /\ failure \in {"none", "completion"}
    /\ messages.instructions = "FALLBACK_INSTRUCTIONS"
    /\ references = <<>>
    /\ pc \in {"COMPLETING", "DONE", "FAILED"} => llmCalls = 1
    /\ rawResults = <<>> =>
         /\ ~fallbackApplied
         /\ retrievalTrace.results = <<>>

\* C9: a failure of the trace sink never fails the request: once the search
\* has succeeded, only the provider can fail it.
C9_TraceFailureNeverFails ==
  (Retrieved /\ pc = "FAILED") => failure = "completion"

\* C10: a graph request whose seedPageId is non-empty and is not a page of
\* the cache ends with status 404, never 500 and never a graph, and issues no
\* vector-search call.  Stated for a cache file that does not parse to null
\* (with that file every request ends 500 before the seed is looked at).
SeedInCache == cacheFile.kind = "valid" /\ query.seedPageId \in cacheFile.pages

C10_UnknownSeedIsNotFound ==
  (gpc = "done" /\ cacheFile.kind # "jsonNull"
     /\ query.seedPageId \notin {Undefined, ""} /\ ~SeedInCache) =>
    /\ status = 404
    /\ searches = <<>>

\* the request carries no seed (line 74: null or the empty string)
NoSeed == query.seedPageId \in {Undefined, ""}

EmptyGraph == [nodes |-> <<>>, edges |-> <<>>]

\* C11: a graph request with no seed returns {nodes: [], edges: []} whenever
\* the page cache is empty, missing or corrupt: a cache file that cannot be
\* read or holds no valid pages mapping counts as zero pages and never ends
\* in the generic failure (500).
C11_BrokenCacheIsEmpty ==
  (gpc = "done" /\ NoSeed /\ (cacheFile.kind # "valid" \/ cacheFile.pages = {})) =>
    /\ status = 200
    /\ body = EmptyGraph

\* a graph was returned
GraphReturned == gpc = "done" /\ status = 200

\* the pairs of page ids in lexicographic order
LexSmaller ==
  { <<"A", "B">>, <<"A", "C">>, <<"A", "Z">>, <<"B", "C">>, <<"B", "Z">>, <<"C", "Z">> }

\* C12: in every graph response each unordered page pair appears in at most
\* one edge, stored with the lexicographically smaller id as source; hits for
\* (A,B) and (B,A) from different probes accumulate into one edge.
C12_OneCanonicalEdgePerPair ==
  GraphReturned =>
    /\ \A i \in 1..Len(body.edges) :
         << body.edges[i].source, body.edges[i].target >> \in LexSmaller
    /\ \A i, j \in 1..Len(body.edges) :
         {body.edges[i].source, body.edges[i].target}
             = {body.edges[j].source, body.edges[j].target} => i = j

\* seed B found A by a synthetic query (0.5) and the probe of A found B
\* (0.4 * 0.5): one edge A-B of weight 0.7
C12_Witness ==
  /\ GraphReturned
  /\ query.seedPageId = "B"
  /\ threshold = 25000
  /\ Len(searches) = 3
  /\ body.edges = << [source |-> "A", target |-> "B", weight |-> 70000] >>

\* the weight the Map holds for the unordered pair {a, b}, 0 without an entry
PairWeight(entries, a, b) ==
  LET idx == { i \in 1..Len(entries) : {entries[i].key[1], entries[i].key[2]} = {a, b} }
  IN IF idx = {} THEN 0 ELSE entries[CHOOSE i \in idx : TRUE].weight

\* the sum of the scores >= thr of the results for one page
RECURSIVE QualifyingSum(_, _, _)
QualifyingSum(hits, page, thr) ==
  IF hits = <<>> THEN 0
  ELSE (IF Head(hits).pageId = page /\ Head(hits).score >= thr THEN Head(hits).score ELSE 0)
         + QualifyingSum(Tail(hits), page, thr)

\* a synthetic query, a neighbour probe resolves in this step
SyntheticStep == gpc = "synthetic" /\ status' # 500
NeighborStep == gpc = "neighbors" /\ status' # 500

\* each synthetic query adds to the seed-neighbour weights exactly the scores
\* >= threshold of its results
SyntheticAddsScores ==
  SyntheticStep =>
    \A n \in HitPages \ {query.seedPageId} :
      PairWeight(pageEdges', query.seedPageId, n)
        = PairWeight(pageEdges, query.seedPageId, n)
            + QualifyingSum(lastResults', n, threshold)

\* a seeded response carries the weights of the Map
ResponseCarriesWeights ==
  (status' = 200 /\ ~NoSeed) =>
    \A i \in 1..Len(body'.edges) :
      body'.edges[i].weight
        = PairWeight(pageEdges', body'.edges[i].source, body'.edges[i].target)

\* C13 as claimed: the weight of a returned seed-neighbour edge is the sum of
\* the scores >= threshold of the synthetic-query results for that neighbour
\* (0.5 and 0.4 give 0.9).  Step by step: every synthetic query adds exactly
\* those scores, no neighbour probe changes a seed-neighbour weight, and the
\* response carries the weight reached.
C13_Original ==
  [][ /\ SyntheticAddsScores
      /\ NeighborStep =>
           \A n \in HitPages \ {query.seedPageId} :
             PairWeight(pageEdges', query.seedPageId, n)
               = PairWeight(pageEdges, query.seedPageId, n)
      /\ ResponseCarriesWeights ]_vars

\* C13, amended: the weight of a returned seed-neighbour edge is the sum of
\* the scores >= threshold of the synthetic-query results for that neighbour,
\* plus half of every score >= threshold with which the probe of that
\* neighbour returned the seed.
C13_SeedEdgeWeight ==
  [][ /\ SyntheticAddsScores
      /\ NeighborStep =>
           \A n \in HitPages \ {query.seedPageId} :
             PairWeight(pageEdges', query.seedPageId, n)
               = PairWeight(pageEdges, query.seedPageId, n)
                   + (IF n = neighborIds[probe]
                      THEN QualifyingSum(lastResults', query.seedPageId, threshold) \div 2
                      ELSE 0)
      /\ ResponseCarriesWeights ]_vars

\* the synthetic queries found A with 0.5 and 0.4 and the probe of A found
\* the seed B with 0.4: the edge A-B is returned with 0.9 + 0.2
C13_Witness ==
  /\ GraphReturned
  /\ query.seedPageId = "B"
  /\ threshold = 25000
  /\ neighborIds = <<"A">>
  /\ lastResults = << [pageId |-> "B", score |-> 40000] >>
  /\ body.edges = << [source |-> "A", target |-> "B", weight |-> 110000] >>

\* C14: a vector-search probe that fails (a synthetic query or a neighbour
\* probe) does not abort a seeded build: the request still returns a valid
\* {nodes, edges} graph and not the generic failure.  Every request that has
\* issued a probe therefore ends with a graph, whether its probes resolved
\* or failed.
C14_FailedProbeStillReturnsGraph ==
  (gpc = "done" /\ searches # <<>>) =>
    /\ status = 200
    /\ \A i \in 1..Len(body.edges) :
         \E j, k \in 1..Len(body.nodes) :
           /\ body.nodes[j].id = body.edges[i].source
           /\ body.nodes[k].id = body.edges[i].target

\* C15: for a request whose seed is in the page cache, and for every accepted
\* maxNodes, the returned node list contains the seed node, and contains each
\* node id at most once.
C15_SeedNodeReturned ==
  (GraphReturned /\ SeedInCache) =>
    /\ \E i \in 1..Len(body.nodes) : body.nodes[i].id = query.seedPageId
    /\ \A i, j \in 1..Len(body.nodes) :
         body.nodes[i].id = body.nodes[j].id => i = j

\* log10(c + 1) * 2 for a count c = 10^n - 1: the d with 10^d = (c + 1)^2
TwiceLog10(c) == CHOOSE d \in 0..8 : 10 ^ d = (c + 1) * (c + 1)

\* the number of returned edges that touch the page
ReturnedDegree(id) ==
  Cardinality({ i \in 1..Len(body.edges) :
                  body.edges[i].source = id \/ body.edges[i].target = id })

Clamp(lo, hi, x) == IF x < lo THEN lo ELSE IF x > hi THEN hi ELSE x

\* C16: in a seeded response every node's size is
\* clamp(6, 18, degree + log10(chunkCount + 1) * 2), the degree being the number
\* of returned edges incident to the node, 0 for a node without a returned edge.
C16_SizeFromFinalDegree ==
  (GraphReturned /\ ~NoSeed) =>
    \A i \in 1..Len(body.nodes) :
      body.nodes[i].size
        = Clamp(6, 18, ReturnedDegree(body.nodes[i].id)
                         + TwiceLog10(body.nodes[i].chunkCount))

\* the ids of the returned nodes
ReturnedIds == { body.nodes[i].id : i \in 1..Len(body.nodes) }

\* max(20, maxNodes * 2), maxNodes being in tenths, in tenths
EdgeCap == IF maxNodes * 2 > 200 THEN maxNodes * 2 ELSE 200

\* C17: in a seeded response the node count is at most maxNodes, the nodes
\* being the first discovered; every returned edge has both endpoints among
\* the returned nodes; the edges are in non-increasing order of weight; and the
\* edge count is at most max(20, maxNodes * 2).
C17_TruncatedSortedCapped ==
  (GraphReturned /\ ~NoSeed) =>
    /\ Len(body.nodes) * 10 <= maxNodes
    /\ Len(body.nodes) <= Len(nodeMap)
    /\ \A i \in 1..Len(body.nodes) : body.nodes[i].id = nodeMap[i]
    /\ \A i \in 1..Len(body.edges) :
         body.edges[i].source \in ReturnedIds /\ body.edges[i].target \in ReturnedIds
    /\ \A i \in 1..(Len(body.edges) - 1) :
         body.edges[i].weight >= body.edges[i + 1].weight
    /\ Len(body.edges) * 10 <= EdgeCap

\* eight nodes and 28 edges of rising weight with maxNodes = 7.5: seven nodes
\* are kept, 21 edges join them, the heaviest 20 are returned
C17_Witness ==
  /\ GraphReturned
  /\ maxNodes = 75
  /\ Len(nodeMap) = 8
  /\ Len(pageEdges) = 28
  /\ pageEdges[1].weight < pageEdges[2].weight
  /\ Len(body.nodes) = 7
  /\ Len(body.edges) = 20
  /\ body.edges[1].weight > body.edges[20].weight

\* the discovered nodes, as a set
KnownNodes == { nodeMap[i] : i \in 1..Len(nodeMap) }

\* the entry at position i was added or updated by this step
EntryTouched(i) == i > Len(pageEdges) \/ pageEdges'[i] # pageEdges[i]

\* C18: the ego-network stage leaves the node set unchanged: it probes at most
\* 10 neighbours, each of them already discovered, and every edge it adds or
\* updates joins the probed neighbour to a different node that was known
\* before the stage began; no result of a neighbour probe introduces a node.
C18_ExpansionKeepsNodes ==
  /\ [](gpc = "neighbors" =>
          /\ Len(neighborIds) <= 10
          /\ probe \in 1..Len(neighborIds)
          /\ \A i \in 1..Len(neighborIds) : neighborIds[i] \in KnownNodes)
  /\ [][gpc = "neighbors" =>
          /\ nodeMap' = nodeMap
          /\ Len(pageEdges') >= Len(pageEdges)
          /\ \A i \in 1..Len(pageEdges') :
               EntryTouched(i) =>
                 \E other \in KnownNodes \ {neighborIds[probe]} :
                   { pageEdges'[i].key[1], pageEdges'[i].key[2] }
                     = { neighborIds[probe], other }
          /\ status' = 200 => \A i \in 1..Len(body'.nodes) : body'.nodes[i].id \in KnownNodes
     ]_vars

\* the probe of A returned C, a page of the cache that is no node: the
\* response has the two nodes B and A and no edge to C
C18_Witness ==
  /\ GraphReturned
  /\ nodeMap = <<"B", "A">>
  /\ "C" \in pages
  /\ lastResults = << [pageId |-> "C", score |-> 50000] >>
  /\ Len(searches) = 3
  /\ Len(body.nodes) = 2
  /\ body.edges = << [source |-> "A", target |-> "B", weight |-> 50000] >>

\* C19: a graph request issues at most 12 vector-search calls (2 synthetic
\* queries and at most 10 neighbour probes), whatever the cache, topK, maxNodes
\* and the search results are; a request without a seed issues none.
C19_AtMostTwelveSearches ==
  /\ Len(searches) <= 12
  /\ NoSeed => searches = <<>>

\* eleven neighbours were discovered, ten of them probed: twelve calls in
\* all, and the graph is returned
C19_Witness ==
  /\ GraphReturned
  /\ Len(nodeMap) = 12
  /\ Len(neighborIds) = 10
  /\ Len(searches) = 12

\* the steps of PREPARING -> RETRIEVING -> (EMPTY_CONTEXT | CONTEXT_BUILT) ->
\* COMPLETING -> DONE, and FAILED from any state but the final ones
RequestSteps ==
  { <<"PREPARING", "RETRIEVING">>,
    <<"RETRIEVING", "EMPTY_CONTEXT">>, <<"RETRIEVING", "CONTEXT_BUILT">>,
    <<"EMPTY_CONTEXT", "COMPLETING">>, <<"CONTEXT_BUILT", "COMPLETING">>,
    <<"COMPLETING", "DONE">> }
    \cup { <<s, "FAILED">> :
             s \in {"PREPARING", "RETRIEVING", "EMPTY_CONTEXT", "CONTEXT_BUILT",
                    "COMPLETING"} }

\* the request moves along the state machine only
FollowsStateMachine == [][pc' # pc => <<pc, pc'>> \in RequestSteps]_vars

\* the provider is called at most once, from a state in which retrieval,
\* filtering and the construction of context and references are over, and
\* nothing of what prepare built changes from the call on
ProviderCalledAfterPrepare ==
  /\ [](llmCalls <= 1)
  /\ [](llmCalls = 1 <=> (pc \in {"COMPLETING", "DONE"} \/ failure = "completion"))
  /\ [][llmCalls' # llmCalls =>
          /\ pc \in {"EMPTY_CONTEXT", "CONTEXT_BUILT"}
          /\ searchCalls = 1
          /\ messages # NoPrompt]_vars
  /\ [][llmCalls' >= 1 =>
          << rawResults', relevantResults', references', retrievalTrace', messages' >>
            = << rawResults, relevantResults, references, retrievalTrace, messages >>]_vars

\* a failed request returns nothing
FailedReturnsNothing ==
  [](pc = "FAILED" => response = NoResponse /\ streamState = "none")

\* C20 as claimed: every request follows the state machine, the vector search
\* is called exactly once per request, the provider at most once and only
\* after prepare has finished, and a failed request returns no answer,
\* references or stream.
C20_Original ==
  /\ FollowsStateMachine
  /\ [](searchCalls <= 1)
  /\ [](pc \in {"DONE", "FAILED"} => searchCalls = 1)
  /\ ProviderCalledAfterPrepare
  /\ FailedReturnsNothing

\* C20, amended: the vector search is called at most once per request:
\* exactly once as soon as a request with a question that is not blank has
\* left PREPARING, and never for a blank question; the rest as claimed.
C20_RequestStateMachine ==
  /\ FollowsStateMachine
  /\ [](searchCalls <= 1)
  /\ [](searchCalls = 1 <=> (pc # "PREPARING" /\ ~WhitespaceOnly(question)))
  /\ ProviderCalledAfterPrepare
  /\ FailedReturnsNothing

\* a request went all the way to the provider, which rejected: one search,
\* one provider call, references built, nothing returned
C20_Witness ==
  /\ pc = "FAILED"
  /\ failure = "completion"
  /\ searchCalls = 1
  /\ llmCalls = 1
  /\ Len(references) = 2
  /\ response = NoResponse

\* the node ids and the weighted edges of a response, as sets
NodeSetOf(json) == { json.nodes[i].id : i \in 1..Len(json.nodes) }

EdgeSetOf(json) == { json.edges[i] : i \in 1..Len(json.edges) }

\* the response of the same build with the results of the two synthetic
\* queries exchanged
SwappedBuild ==
  BuildGraph(query.seedPageId,
             << probeResults.synthetic[2], probeResults.synthetic[1] >>,
             probeResults.byNeighbor, threshold, pages, maxNodes)

\* C21: the graph of a seeded build does not depend on the order in which the
\* probe results are processed: with the same results per probe, the two
\* synthetic queries taken in either order give the same node set and the same
\* edge weights, also when maxNodes truncates the discovered set.
C21_OrderIndependent ==
  (GraphReturned /\ probeResults # NoProbeResults) =>
    /\ NodeSetOf(SwappedBuild) = NodeSetOf(body)
    /\ EdgeSetOf(SwappedBuild) = EdgeSetOf(body)

\* run e of fetchRelated takes a step after its cleanup has run
StaleStep(e) == effects[e].aborted /\ effects'[e].pc # effects[e].pc

\* C22: once the effect for a query has been cleaned up (aborted = true), its
\* in-flight fetch sequence never updates the component state again: no step
\* of a stale run passes a value to setRelatedPages, setError or setLoading,
\* on the references path or on the graph fallback path.
C22_StaleFetchNeverUpdates ==
  [][\A e \in 1..Len(effects) :
       StaleStep(e) =>
         << relatedPages', loading', error' >> = << relatedPages, loading, error >>]_vars

====
